---- MODULE Spec2Model ----
(***************************************************************************)
(* Verification model of maxvp/resume-python:                              *)
(*   generate_resume.py  -- the text normalizers, the template and the     *)
(*                          YAML -> HTML -> PDF pipeline                   *)
(*   watch_resume.py     -- the watchdog handler with its debounce and     *)
(*                          the main program of the watcher                *)
(* Three specifications share the module:                                  *)
(*   SpecText   applies parse_markdown_links / convert_hyphens to texts    *)
(*   SpecRender renders a Resume record through TEMPLATE                   *)
(*   Spec       runs the watcher (initial run, observer thread, handler)   *)
(***************************************************************************)
EXTENDS Integers, Sequences, FiniteSets, TLC

VARIABLES
    text, result, applied,          \* SpecText: argument, return value, function applied
    resume, markup,                 \* SpecRender: the loaded record, the rendered regions
    yaml, html, pdf, destWritable,  \* the files in the working directory
    mainPc, dispPc,                 \* position of the main thread / the observer thread
    stage, data, htmlContent,       \* per thread: position and locals of generate_resume
    produced, printed,              \* per thread: artifacts written / status lines printed
    queue, now, last_modified,      \* watchdog event queue, clock, ResumeHandler field
    runsStarted, accepted,          \* history counters of the watcher
    edits                           \* changes made to resume.yaml so far

textVars   == <<text, result, applied>>
renderVars == <<resume, markup>>
fileVars   == <<yaml, html, pdf, destWritable>>
genVars    == <<stage, data, htmlContent, produced, printed>>
watchVars  == <<mainPc, dispPc, queue, now, last_modified, runsStarted, accepted, edits>>
envVars    == <<edits>>
vars       == <<textVars, renderVars, fileVars, genVars, watchVars, envVars>>

----------------------------------------------------------------------------
(* Bounds *)
MaxChunks == 4      \* a text is the concatenation of at most MaxChunks chunks
MaxEntries == 2     \* entries per resume section
MaxTime == 4        \* clock ticks observed
MaxQueue == 2       \* pending watchdog events
MaxEdits == 2       \* changes the editor makes to resume.yaml

----------------------------------------------------------------------------
(* Python values                                                           *)
(* A text argument is either None or a str; a str is a sequence of         *)
(* characters.  The en dash U+2013 is the single character EnDash.         *)

None == [kind |-> "none", chars |-> <<>>]
Str(s) == [kind |-> "str", chars |-> s]
EnDash == "ndash"
Hyphen == "-"

\* `not text` of Python: None and the empty string are falsy
Falsy(t) == t.kind = "none" \/ t.chars = <<>>

RECURSIVE Concat(_)
Concat(ss) == IF ss = <<>> THEN <<>> ELSE Head(ss) \o Concat(Tail(ss))

----------------------------------------------------------------------------
(* parse_markdown_links: re.sub(r'\[([^\]]+)\]\(([^\)]+)\)',                *)
(*                              r'<a href="\2">\1</a>', text)              *)

\* least index k >= from with s[k] = c, or 0 when there is none
RECURSIVE IndexFrom(_, _, _)
IndexFrom(s, c, from) ==
    IF from > Len(s) THEN 0
    ELSE IF s[from] = c THEN from
    ELSE IndexFrom(s, c, from + 1)

\* The regex tried at position i.  [^\]]+ can only stop in front of the
\* first "]" after i and must consume one character at least; the same
\* holds of [^\)]+ and the first ")" after the "(".  The result is
\* <<k, m>>: k the index of "]", m the index of the closing ")"; <<0, 0>>
\* when the regex does not match at i.
MatchAt(s, i) ==
    IF s[i] # "[" THEN <<0, 0>>
    ELSE LET k == IndexFrom(s, "]", i + 1) IN
         IF k < i + 2 THEN <<0, 0>>
         ELSE IF k + 1 > Len(s) \/ s[k + 1] # "(" THEN <<0, 0>>
         ELSE LET m == IndexFrom(s, ")", k + 2) IN
              IF m < k + 3 THEN <<0, 0>> ELSE <<k, m>>

\* the replacement template <a href="\2">\1</a>
Anchor(label, target) ==
    <<"<a href=\"">> \o target \o <<"\">">> \o label \o <<"</a>">>

\* faulty variant: re.sub with count=1
RECURSIVE SubFrom_FirstOnly(_, _)
SubFrom_FirstOnly(s, i) ==
    IF i > Len(s) THEN <<>>
    ELSE LET km == MatchAt(s, i) IN
         IF km[2] = 0 THEN <<s[i]>> \o SubFrom_FirstOnly(s, i + 1)
         ELSE Anchor(SubSeq(s, i + 1, km[1] - 1), SubSeq(s, km[1] + 2, km[2] - 1))
              \o SubSeq(s, km[2] + 1, Len(s))

\* re.sub scans left to right; after a match it resumes behind the match
RECURSIVE SubFrom(_, _)
SubFrom(s, i) ==
    IF i > Len(s) THEN <<>>
    ELSE LET km == MatchAt(s, i) IN
         IF km[2] = 0 THEN <<s[i]>> \o SubFrom(s, i + 1)
         ELSE Anchor(SubSeq(s, i + 1, km[1] - 1), SubSeq(s, km[1] + 2, km[2] - 1))
              \o SubFrom(s, km[2] + 1)

parse_markdown_links(t) ==
    IF Falsy(t) THEN t ELSE Str(SubFrom(t.chars, 1))

----------------------------------------------------------------------------
(* convert_hyphens: text.replace('-', EN DASH)                              *)

\* faulty variant: str.replace with count=1
RECURSIVE Replace_FirstOnly(_, _, _)
Replace_FirstOnly(s, old, new) ==
    IF s = <<>> THEN <<>>
    ELSE IF Head(s) = old THEN <<new>> \o Tail(s)
    ELSE <<Head(s)>> \o Replace_FirstOnly(Tail(s), old, new)

\* str.replace(old, new) for single characters old, new
RECURSIVE Replace(_, _, _)
Replace(s, old, new) ==
    IF s = <<>> THEN <<>>
    ELSE IF Head(s) = old THEN <<new>> \o Replace(Tail(s), old, new)
    ELSE <<Head(s)>> \o Replace(Tail(s), old, new)

convert_hyphens(t) ==
    IF Falsy(t) THEN t ELSE Str(Replace(t.chars, Hyphen, EnDash))

----------------------------------------------------------------------------
(* SpecText: the two normalizers applied to bounded texts                   *)

LinkAB    == <<"[", "a", "]", "(", "b", ")">>
NoLabel   == <<"[", "]", "(", "b", ")">>
NoTarget  == <<"[", "a", "]", "(", ")">>
Chunks == { <<"[">>, <<"]">>, <<"(">>, <<")">>, <<"a">>, <<Hyphen>>, <<EnDash>>,
            LinkAB, NoLabel, NoTarget }

Texts == { Concat(cs) : cs \in UNION { [1..n -> Chunks] : n \in 0..MaxChunks } }

TextArgs == {None} \cup { Str(s) : s \in Texts }

\* the watcher's variables while only a function of generate_resume.py is run
WatcherNotRunning ==
    /\ yaml = "missing" /\ html = "absent" /\ pdf = "absent" /\ destWritable = TRUE
    /\ mainPc = "exited" /\ dispPc = "off"
    /\ stage = <<>> /\ data = <<>> /\ htmlContent = <<>>
    /\ produced = <<>> /\ printed = <<>>
    /\ queue = <<>> /\ now = 0 /\ last_modified = 0
    /\ runsStarted = 0 /\ accepted = 0 /\ edits = 0

InitText ==
    /\ text \in TextArgs
    /\ result = None
    /\ applied = "none"
    /\ resume = <<>> /\ markup = <<>>
    /\ WatcherNotRunning

CallParseLinks ==
    /\ applied = "none"
    /\ result' = parse_markdown_links(text)
    /\ applied' = "parse_markdown_links"
    /\ UNCHANGED <<text, renderVars, fileVars, genVars, watchVars, envVars>>

CallConvertHyphens ==
    /\ applied = "none"
    /\ result' = convert_hyphens(text)
    /\ applied' = "convert_hyphens"
    /\ UNCHANGED <<text, renderVars, fileVars, genVars, watchVars, envVars>>

NextText == CallParseLinks \/ CallConvertHyphens

SpecText == InitText /\ [][NextText]_vars

----------------------------------------------------------------------------
(* Claims on the normalizers                                                *)

IsOcc(s, i, k, m, minLen) ==
    /\ s[i] = "[" /\ s[k] = "]"
    /\ k >= i + 1 + minLen
    /\ \A j \in (i + 1)..(k - 1) : s[j] # "]"
    /\ k + 1 <= Len(s) /\ s[k + 1] = "("
    /\ m >= k + 2 + minLen
    /\ s[m] = ")"
    /\ \A j \in (k + 2)..(m - 1) : s[j] # ")"

OccsAt(s, i, minLen) ==
    { km \in { k \in (i + 1)..Len(s) : s[k] = "]" } \X { m \in (i + 1)..Len(s) : s[m] = ")" } :
          IsOcc(s, i, km[1], km[2], minLen) }

\* The occurrences taken left to right without overlap: an occurrence is
\* taken when no occurrence taken to its left reaches its first character.
Taken(s, minLen) ==
    LET end(i) == (CHOOSE km \in OccsAt(s, i, minLen) : TRUE)[2]
        tk[i \in 1..Len(s)] ==
            /\ OccsAt(s, i, minLen) # {}
            /\ \A j \in 1..(i - 1) : tk[j] => end(j) < i
    IN  tk

\* What the claim prescribes for s, position by position: the hyperlink at
\* the first character of a taken occurrence, nothing at its other
\* characters, the character itself everywhere else.
Prescribed(s, minLen) ==
    LET tk == Taken(s, minLen)
        occ(i) == CHOOSE km \in OccsAt(s, i, minLen) : TRUE
        covered(i) == \E j \in 1..(i - 1) : tk[j] /\ occ(j)[2] >= i
        piece(i) == IF tk[i]
                    THEN Anchor(SubSeq(s, i + 1, occ(i)[1] - 1),
                                SubSeq(s, occ(i)[1] + 2, occ(i)[2] - 1))
                    ELSE IF covered(i) THEN <<>> ELSE <<s[i]>>
    IN  Concat([i \in 1..Len(s) |-> piece(i)])

\* C10 as stated: every occurrence of [label](target), label without "]" and
\* target without ")", is replaced.  Refuted by the empty label and the
\* empty target, which the regex leaves alone.
C10_Original_AnyLabelReplaced ==
    applied = "parse_markdown_links" =>
        IF text.kind = "none" \/ text.chars = <<>>
        THEN result = text
        ELSE result = Str(Prescribed(text.chars, 0))

\* C10 amended: every left-to-right, non-overlapping occurrence of
\* [label](target) with a non-empty label without "]" and a non-empty target
\* without ")" is replaced by the hyperlink, all of them and not the first
\* only; the text outside the occurrences is copied in order; a text without
\* such an occurrence, the empty text and the absent text come back unchanged.
C10_NonEmptyLinksReplaced ==
    applied = "parse_markdown_links" =>
        IF text.kind = "none" \/ text.chars = <<>>
        THEN result = text
        ELSE /\ result = Str(Prescribed(text.chars, 1))
             /\ (\A i \in 1..Len(text.chars) : OccsAt(text.chars, i, 1) = {})
                    => result = text

C10_Witness ==
    /\ applied = "parse_markdown_links"
    /\ text.kind = "str"
    /\ LET s == text.chars
           tk == Taken(s, 1)
       IN  \E i, j, c \in 1..Len(s) :
              /\ i < c /\ c < j /\ tk[i] /\ tk[j] /\ s[c] = "a"
              /\ c > (CHOOSE km \in OccsAt(s, i, 1) : TRUE)[2]
    /\ Len(result.chars) = Len(text.chars) - 2

----------------------------------------------------------------------------
(* TEMPLATE: the regions of the body, in document order.  The markup is    *)
(* the sequence of the fragments the template emits; a fragment names its  *)
(* region and the entry bound into it.                                     *)

Fragments(region, entries) ==
    [i \in 1..Len(entries) |-> [region |-> region, entry |-> entries[i]]]

\* <div class="header">: name and the contact line
HeaderRegion(r) == <<[region |-> "header", entry |-> r.name]>>

\* {% for skill in skills %} <li class="skill-item">
SkillsRegion(r) == Fragments("skills", r.skills)

\* {% for job in experience %} <div class="experience-item">, with one
\* role-item per role; the company is printed inside the role-item
ExperienceRegion(r) ==
    [i \in 1..Len(r.experience) |->
        [region |-> "experience",
         entry  |-> [j \in 1..Len(r.experience[i].roles) |->
                        [company |-> r.experience[i].company,
                         role    |-> r.experience[i].roles[j]]]]]

\* {% for award in awards %}
AwardsRegion(r) == Fragments("awards", r.awards)

\* {% for edu in education %}
EducationRegion(r) == Fragments("education", r.education)

\* template.render(**data): the body has no region after Education
Render(r) ==
    HeaderRegion(r) \o SkillsRegion(r) \o ExperienceRegion(r)
        \o AwardsRegion(r) \o EducationRegion(r)

----------------------------------------------------------------------------
(* SpecRender: a Resume record rendered once                                *)

Ids == {"x", "y"}
SeqsUpTo(S, n) == UNION { [1..k -> S] : k \in 0..n }

Jobs == { [company |-> c, roles |-> rs] : c \in {"x"}, rs \in SeqsUpTo({"r"}, 1) }
           \cup { [company |-> "y", roles |-> <<"r", "s">>] }

Resumes ==
    [ name       : {"n"},
      skills     : SeqsUpTo(Ids, MaxEntries),
      experience : SeqsUpTo(Jobs, MaxEntries),
      awards     : SeqsUpTo({"x"}, 1),
      education  : SeqsUpTo({"x"}, 1),
      projects   : SeqsUpTo(Ids, MaxEntries) ]

InitRender ==
    /\ resume \in Resumes
    /\ markup = <<>>
    /\ text = None /\ result = None /\ applied = "none"
    /\ WatcherNotRunning

RenderTemplate ==
    /\ applied = "none"
    /\ markup' = Render(resume)
    /\ applied' = "render"
    /\ UNCHANGED <<text, result, resume, fileVars, genVars, watchVars, envVars>>

NextRender == RenderTemplate

SpecRender == InitRender /\ [][NextRender]_vars

\* the entries the markup shows in a region, in document order
Shown(m, region) ==
    LET InRegion(f) == f.region = region
        fs == SelectSeq(m, InRegion)
    IN  [i \in 1..Len(fs) |-> fs[i].entry]

\* C7: every entry of skills, experience, awards, education and projects has
\* its fragment in the markup, in source order and none filtered out; in
\* particular every project appears in the projects region.
C7_EverySectionBound ==
    applied = "render" =>
        /\ Shown(markup, "skills") = resume.skills
        /\ Shown(markup, "awards") = resume.awards
        /\ Shown(markup, "education") = resume.education
        /\ Len(Shown(markup, "experience")) = Len(resume.experience)
        /\ \A i \in 1..Len(resume.experience) :
              Shown(markup, "experience")[i] =
                  [j \in 1..Len(resume.experience[i].roles) |->
                      [company |-> resume.experience[i].company,
                       role    |-> resume.experience[i].roles[j]]]
        /\ Shown(markup, "projects") = resume.projects

----------------------------------------------------------------------------
(* The working directory                                                   *)

\* what resume.yaml holds: no file, a file open() refuses, text that is not
\* YAML, an empty document (safe_load gives None), a top-level list, a
\* mapping without one of the sections, a complete mapping
YamlKinds == {"missing", "unreadable", "invalid", "empty", "notmapping",
              "nosection", "valid"}

Absent == [doc |-> "absent", from |-> "none"]
\* template.render(**data) of a mapping: the markup of that data
Markup(d) == [doc |-> "markup", from |-> d]
\* HTML(string=html_content).write_pdf: the pages of that markup
Pdf(m) == [doc |-> "pdf", from |-> m.from]

Threads == {"main", "disp"}

\* 0.5 s, the clock ticking in quarters of a second
Debounce == 2

InFlightStages == {"check", "load", "render", "html", "pdf"}
InFlight(t) == stage[t] \in InFlightStages

\* the observer delivers events once observer.start() has run and until
\* observer.stop()
Observing == dispPc \in {"idle", "handling"}

\* an event enters the observer's queue (the queue is bounded by MaxQueue:
\* an event that finds it full is merged away)
Enqueue(q, path) ==
    IF Observing /\ Len(q) < MaxQueue
    THEN Append(q, [path |-> path, at |-> now])
    ELSE q

\* event.src_path.endswith('resume.yaml')
EndsWithResumeYaml(path) == path = "./resume.yaml"

----------------------------------------------------------------------------
(* generate_resume(), one action per statement group, run by thread t      *)

\* entering the function: fresh locals
Enter(t) ==
    /\ stage' = [stage EXCEPT ![t] = "check"]
    /\ data' = [data EXCEPT ![t] = "none"]
    /\ htmlContent' = [htmlContent EXCEPT ![t] = Absent]
    /\ produced' = [produced EXCEPT ![t] = {}]
    /\ printed' = [printed EXCEPT ![t] = {}]
    /\ runsStarted' = runsStarted + 1

\* faulty variant: the missing file is reported but the return is left out
\* and the function goes on with an empty mapping
GenCheckExists_NoReturn(t) ==
    /\ stage[t] = "check"
    /\ IF yaml = "missing"
       THEN /\ printed' = [printed EXCEPT ![t] = @ \cup {"Error: not found"}]
            /\ data' = [data EXCEPT ![t] = "nosection"]
            /\ stage' = [stage EXCEPT ![t] = "render"]
       ELSE /\ stage' = [stage EXCEPT ![t] = "load"]
            /\ UNCHANGED <<printed, data>>
    /\ UNCHANGED <<textVars, renderVars, fileVars, htmlContent, produced, watchVars, envVars>>

\* if not os.path.exists(yaml_file): print(...); return
GenCheckExists(t) ==
    /\ stage[t] = "check"
    /\ IF yaml = "missing"
       THEN /\ printed' = [printed EXCEPT ![t] = @ \cup {"Error: not found"}]
            /\ stage' = [stage EXCEPT ![t] = "returned"]
       ELSE /\ stage' = [stage EXCEPT ![t] = "load"]
            /\ UNCHANGED printed
    /\ UNCHANGED <<textVars, renderVars, fileVars, data, htmlContent, produced, watchVars, envVars>>

\* try: open(...); data = yaml.safe_load(f)  except yaml.YAMLError: print; return
\* open() of a file removed since the check or of an unreadable file raises
\* OSError, which the except clause does not name
GenLoad(t) ==
    /\ stage[t] = "load"
    /\ CASE yaml \in {"missing", "unreadable"} ->
                /\ stage' = [stage EXCEPT ![t] = "raised"]
                /\ UNCHANGED <<printed, data>>
         [] yaml = "invalid" ->
                /\ printed' = [printed EXCEPT ![t] = @ \cup {"Error parsing YAML"}]
                /\ stage' = [stage EXCEPT ![t] = "returned"]
                /\ UNCHANGED data
         [] OTHER ->
                /\ data' = [data EXCEPT ![t] = yaml]
                /\ stage' = [stage EXCEPT ![t] = "render"]
                /\ UNCHANGED printed
    /\ UNCHANGED <<textVars, renderVars, fileVars, htmlContent, produced, watchVars, envVars>>

\* html_content = template.render(**data): ** of None or of a list raises
\* TypeError outside any try; a mapping renders, an absent section being
\* iterated zero times
GenRender(t) ==
    /\ stage[t] = "render"
    /\ IF data[t] \in {"empty", "notmapping"}
       THEN /\ stage' = [stage EXCEPT ![t] = "raised"]
            /\ UNCHANGED htmlContent
       ELSE /\ htmlContent' = [htmlContent EXCEPT ![t] = Markup(data[t])]
            /\ stage' = [stage EXCEPT ![t] = "html"]
    /\ UNCHANGED <<textVars, renderVars, fileVars, data, produced, printed, watchVars, envVars>>

\* try: open(output_html, 'w'); f.write(html_content); print("HTML generated")
\* except Exception: print("Error generating HTML")     -- and on to the PDF
GenWriteHtml(t) ==
    /\ stage[t] = "html"
    /\ IF destWritable
       THEN /\ html' = htmlContent[t]
            /\ produced' = [produced EXCEPT ![t] = @ \cup {"html"}]
            /\ printed' = [printed EXCEPT ![t] = @ \cup {"HTML generated"}]
            /\ queue' = Enqueue(queue, "./resume.html")
       ELSE /\ printed' = [printed EXCEPT ![t] = @ \cup {"Error generating HTML"}]
            /\ UNCHANGED <<html, produced, queue>>
    /\ stage' = [stage EXCEPT ![t] = "pdf"]
    /\ UNCHANGED <<textVars, renderVars, yaml, pdf, destWritable, data, htmlContent,
                   mainPc, dispPc, now, last_modified, runsStarted, accepted, edits>>

\* try: HTML(string=html_content).write_pdf(output_pdf); print("PDF generated")
\* except Exception: print("Error generating PDF")
\* the layout engine may fail on its own (engineOk)
GenWritePdf(t) ==
    /\ stage[t] = "pdf"
    /\ \E engineOk \in BOOLEAN :
          IF engineOk /\ destWritable
          THEN /\ pdf' = Pdf(htmlContent[t])
               /\ produced' = [produced EXCEPT ![t] = @ \cup {"pdf"}]
               /\ printed' = [printed EXCEPT ![t] = @ \cup {"PDF generated"}]
               /\ queue' = Enqueue(queue, "./resume.pdf")
          ELSE /\ printed' = [printed EXCEPT ![t] = @ \cup {"Error generating PDF"}]
               /\ UNCHANGED <<pdf, produced, queue>>
    /\ stage' = [stage EXCEPT ![t] = "returned"]
    /\ UNCHANGED <<textVars, renderVars, yaml, html, destWritable, data, htmlContent,
                   mainPc, dispPc, now, last_modified, runsStarted, accepted, edits>>

----------------------------------------------------------------------------
(* watch_resume.py: the main program                                       *)

\* faulty variant: the observer is started before the initial generation
MainCallInitial_ObserverFirst ==
    /\ mainPc = "start"
    /\ mainPc' = "initial"
    /\ dispPc' = "idle"
    /\ last_modified' = now
    /\ Enter("main")
    /\ UNCHANGED <<textVars, renderVars, fileVars, queue, now, accepted, edits>>

\* try: generate_resume()      -- the call
MainCallInitial ==
    /\ mainPc = "start"
    /\ mainPc' = "initial"
    /\ Enter("main")
    /\ UNCHANGED <<textVars, renderVars, fileVars, dispPc, queue, now,
                   last_modified, accepted, edits>>

\* ... print()  except Exception as e: print("Initial generation failed")
MainInitialDone ==
    /\ mainPc = "initial"
    /\ stage["main"] \in {"returned", "raised"}
    /\ printed' = [printed EXCEPT !["main"] =
                      IF stage["main"] = "raised"
                      THEN @ \cup {"Initial generation failed"} ELSE @]
    /\ stage' = [stage EXCEPT !["main"] = "idle"]
    /\ data' = [data EXCEPT !["main"] = "none"]
    /\ htmlContent' = [htmlContent EXCEPT !["main"] = Absent]
    /\ mainPc' = "setup"
    /\ UNCHANGED <<textVars, renderVars, fileVars, produced,
                   dispPc, queue, now, last_modified, runsStarted, accepted, edits>>

\* event_handler = ResumeHandler()  (last_modified = time.time());
\* observer.schedule(...); observer.start()
MainStartObserver ==
    /\ mainPc = "setup"
    /\ last_modified' = now
    /\ dispPc' = "idle"
    /\ mainPc' = "sleep"
    /\ UNCHANGED <<textVars, renderVars, fileVars, genVars, queue, now,
                   runsStarted, accepted, edits>>

\* KeyboardInterrupt in the sleep loop: print; observer.stop()
MainInterrupt ==
    /\ mainPc = "sleep"
    /\ mainPc' = "stopping"
    /\ UNCHANGED <<textVars, renderVars, fileVars, genVars, dispPc, queue, now,
                   last_modified, runsStarted, accepted, edits>>

\* the observer thread leaves its loop once stopped and not in a handler
ObserverStop ==
    /\ mainPc = "stopping"
    /\ dispPc = "idle"
    /\ dispPc' = "stopped"
    /\ UNCHANGED <<textVars, renderVars, fileVars, genVars, mainPc, queue, now,
                   last_modified, runsStarted, accepted, edits>>

\* observer.join(); print("Goodbye!")
MainExit ==
    /\ mainPc = "stopping"
    /\ dispPc = "stopped"
    /\ mainPc' = "exited"
    /\ UNCHANGED <<textVars, renderVars, fileVars, genVars, dispPc, queue, now,
                   last_modified, runsStarted, accepted, edits>>

----------------------------------------------------------------------------
(* ResumeHandler.on_modified, called by the observer thread for the event  *)
(* at the head of its queue                                                *)

\* faulty variant: generate_resume() is called outside the endswith test
on_modified_RunForAnyPath ==
    /\ dispPc = "idle"
    /\ queue # <<>>
    /\ queue' = Tail(queue)
    /\ IF now - last_modified < Debounce
       THEN UNCHANGED <<last_modified, accepted, dispPc, genVars, runsStarted>>
       ELSE /\ IF EndsWithResumeYaml(Head(queue).path)
               THEN last_modified' = now /\ accepted' = accepted + 1
               ELSE UNCHANGED <<last_modified, accepted>>
            /\ dispPc' = "handling"
            /\ Enter("disp")
    /\ UNCHANGED <<textVars, renderVars, fileVars, mainPc, now, edits>>

\* if time.time() - self.last_modified < 0.5: return
\* if event.src_path.endswith('resume.yaml'):
\*     self.last_modified = time.time(); print("Detected change"); generate_resume()
on_modified ==
    /\ dispPc = "idle"
    /\ queue # <<>>
    /\ queue' = Tail(queue)
    /\ IF now - last_modified < Debounce
       THEN UNCHANGED <<last_modified, accepted, dispPc, genVars, runsStarted>>
       ELSE IF EndsWithResumeYaml(Head(queue).path)
       THEN /\ last_modified' = now
            /\ accepted' = accepted + 1
            /\ dispPc' = "handling"
            /\ Enter("disp")
       ELSE UNCHANGED <<last_modified, accepted, dispPc, genVars, runsStarted>>
    /\ UNCHANGED <<textVars, renderVars, fileVars, mainPc, now, edits>>

\* faulty variant: no try/except around generate_resume(); the exception
\* ends the observer thread
on_modified_return_Uncaught ==
    /\ dispPc = "handling"
    /\ stage["disp"] \in {"returned", "raised"}
    /\ IF stage["disp"] = "returned"
       THEN /\ printed' = [printed EXCEPT !["disp"] = @ \cup {"PDF updated successfully"}]
            /\ dispPc' = "idle"
       ELSE /\ dispPc' = "dead"
            /\ UNCHANGED printed
    /\ stage' = [stage EXCEPT !["disp"] = "idle"]
    /\ data' = [data EXCEPT !["disp"] = "none"]
    /\ htmlContent' = [htmlContent EXCEPT !["disp"] = Absent]
    /\ UNCHANGED <<textVars, renderVars, fileVars, produced,
                   mainPc, queue, now, last_modified, runsStarted, accepted, edits>>

\* try: generate_resume(); print("PDF updated successfully")
\* except Exception as e: print("Error generating PDF")
on_modified_return ==
    /\ dispPc = "handling"
    /\ stage["disp"] \in {"returned", "raised"}
    /\ printed' = [printed EXCEPT !["disp"] =
                      IF stage["disp"] = "returned"
                      THEN @ \cup {"PDF updated successfully"}
                      ELSE @ \cup {"Error generating PDF (watcher)"}]
    /\ stage' = [stage EXCEPT !["disp"] = "idle"]
    /\ data' = [data EXCEPT !["disp"] = "none"]
    /\ htmlContent' = [htmlContent EXCEPT !["disp"] = Absent]
    /\ dispPc' = "idle"
    /\ UNCHANGED <<textVars, renderVars, fileVars, produced,
                   mainPc, queue, now, last_modified, runsStarted, accepted, edits>>

----------------------------------------------------------------------------
(* The environment: the clock and the editor                               *)

Tick ==
    /\ now < MaxTime
    /\ now' = now + 1
    /\ UNCHANGED <<textVars, renderVars, fileVars, genVars, mainPc, dispPc, queue,
                   last_modified, runsStarted, accepted, edits>>

\* resume.yaml is written (or its mode changed): a modification event
SaveYaml ==
    /\ mainPc \in {"start", "initial", "setup", "sleep"}
    /\ edits < MaxEdits
    /\ edits' = edits + 1
    /\ \E k \in YamlKinds \ {"missing"} :
          /\ yaml' = k
          /\ queue' = Enqueue(queue, "./resume.yaml")
    /\ UNCHANGED <<textVars, renderVars, html, pdf, destWritable, genVars, mainPc,
                   dispPc, now, last_modified, runsStarted, accepted>>

\* resume.yaml is removed: the directory is the modified path
DeleteYaml ==
    /\ mainPc \in {"start", "initial", "setup", "sleep"}
    /\ yaml # "missing"
    /\ edits < MaxEdits
    /\ edits' = edits + 1
    /\ yaml' = "missing"
    /\ queue' = Enqueue(queue, ".")
    /\ UNCHANGED <<textVars, renderVars, html, pdf, destWritable, genVars, mainPc,
                   dispPc, now, last_modified, runsStarted, accepted>>

----------------------------------------------------------------------------
Init ==
    /\ text = None /\ result = None /\ applied = "none"
    /\ resume = <<>> /\ markup = <<>>
    /\ yaml \in YamlKinds
    /\ \E d \in {"none", "valid"} :
          /\ html = (IF d = "none" THEN Absent ELSE Markup(d))
          /\ pdf = (IF d = "none" THEN Absent ELSE Pdf(Markup(d)))
    /\ destWritable \in BOOLEAN
    /\ mainPc = "start"
    /\ dispPc = "off"
    /\ stage = [t \in Threads |-> "idle"]
    /\ data = [t \in Threads |-> "none"]
    /\ htmlContent = [t \in Threads |-> Absent]
    /\ produced = [t \in Threads |-> {}]
    /\ printed = [t \in Threads |-> {}]
    /\ queue = <<>>
    /\ now = 0
    /\ last_modified = 0
    /\ runsStarted = 0
    /\ accepted = 0
    /\ edits = 0

Next ==
    \/ MainCallInitial
    \/ MainInitialDone
    \/ MainStartObserver
    \/ MainInterrupt
    \/ ObserverStop
    \/ MainExit
    \/ on_modified
    \/ on_modified_return
    \/ \E t \in Threads : GenCheckExists(t)
    \/ \E t \in Threads : GenLoad(t)
    \/ \E t \in Threads : GenRender(t)
    \/ \E t \in Threads : GenWriteHtml(t)
    \/ \E t \in Threads : GenWritePdf(t)
    \/ Tick
    \/ SaveYaml
    \/ DeleteYaml

Spec == Init /\ [][Next]_vars

TypeOK ==
    /\ yaml \in YamlKinds
    /\ mainPc \in {"start", "initial", "setup", "sleep", "stopping", "exited"}
    /\ dispPc \in {"off", "idle", "handling", "stopped"}
    /\ \A t \in Threads : stage[t] \in {"idle", "returned", "raised"} \cup InFlightStages
    /\ now \in 0..MaxTime /\ last_modified \in 0..MaxTime
    /\ Len(queue) <= MaxQueue

----------------------------------------------------------------------------
(* Claims on the pipeline and the watcher                                   *)

\* C1: a call that finds the input path missing returns at once: the step
\* that leaves the existence test reports the missing file, ends the run and
\* changes neither the markup file nor the paginated file, whatever an
\* earlier run left there.
C1_MissingInputWritesNothing ==
    [][\A t \in Threads :
          (stage[t] = "check" /\ yaml = "missing" /\ stage'[t] # "check")
              => /\ stage'[t] = "returned"
                 /\ "Error: not found" \in printed'[t]
                 /\ produced'[t] = {}
                 /\ html' = html /\ pdf' = pdf]_vars

C1_Witness ==
    \E t \in Threads :
        /\ stage[t] = "returned"
        /\ "Error: not found" \in printed[t]
        /\ html = Markup("valid") /\ pdf = Pdf(Markup("valid"))

\* C2: no failure leaves generate_resume as an exception; every run ends by
\* returning to its caller.
C2_NoFailureEscapes ==
    \A t \in Threads : stage[t] # "raised"

\* C3: a notification that arrives less than 0.5 s after the previous
\* accepted notification is discarded: handling it starts no run and leaves
\* last_modified unchanged.
C3_ArrivalInsideWindowDiscarded ==
    [][(/\ dispPc = "idle" /\ queue # <<>> /\ queue' = Tail(queue)
        /\ accepted >= 1
        /\ Head(queue).at >= last_modified
        /\ Head(queue).at - last_modified < Debounce)
          => /\ last_modified' = last_modified
             /\ accepted' = accepted
             /\ runsStarted' = runsStarted]_vars

\* C4: at most one execution of generate_resume is in flight.
C4_AtMostOneInFlight ==
    Cardinality({ t \in Threads : InFlight(t) }) <= 1

\* a run that has outlasted the debounce window with a change of resume.yaml
\* waiting in the queue
C4_Witness ==
    /\ InFlight("disp")
    /\ now - last_modified >= Debounce
    /\ queue # <<>>
    /\ EndsWithResumeYaml(Head(queue).path)

\* C5: a run that ends by an exception is caught and reported by its caller
\* and the watcher goes on: the initial run leads on to the observer set-up,
\* a handler run leaves the observer thread idle and ready for the next
\* event, and every accepted notification starts a run.
C5_FailedRunKeepsWatcher ==
    [][/\ (stage["main"] = "raised" /\ stage'["main"] # "raised")
            => /\ mainPc' = "setup"
               /\ "Initial generation failed" \in printed'["main"]
       /\ (stage["disp"] = "raised" /\ stage'["disp"] # "raised")
            => /\ dispPc' = "idle"
               /\ "Error generating PDF (watcher)" \in printed'["disp"]
       /\ (accepted' = accepted + 1)
            => /\ stage'["disp"] = "check"
               /\ runsStarted' = runsStarted + 1]_vars

\* the initial run raised, the watcher took a notification all the same, and
\* the run it started raised too
C5_Witness ==
    /\ "Initial generation failed" \in printed["main"]
    /\ accepted >= 1
    /\ dispPc = "handling"
    /\ stage["disp"] = "raised"

\* C6: no success line is printed for an artifact the run did not produce,
\* neither by generate_resume nor by the handler after the call.
C6_NoSuccessWithoutArtifact ==
    \A t \in Threads :
        /\ "HTML generated" \in printed[t] => "html" \in produced[t]
        /\ "PDF generated" \in printed[t] => "pdf" \in produced[t]
        /\ "PDF updated successfully" \in printed[t] => "pdf" \in produced[t]

\* C8: one run before the observer starts, finished before it starts, and
\* afterwards one run per accepted notification: the runs started number
\* 1 + accepted.
C8_OneRunPerAcceptedNotification ==
    /\ mainPc = "start" => runsStarted = 0
    /\ mainPc # "start" => runsStarted = 1 + accepted
    /\ mainPc \in {"start", "initial", "setup"} => (dispPc = "off" /\ accepted = 0)
    /\ dispPc # "off" => stage["main"] = "idle"

C8_Witness ==
    /\ accepted = 2
    /\ runsStarted = 3
    /\ dispPc = "idle"
    /\ mainPc = "sleep"
    /\ queue # <<>>
    /\ ~EndsWithResumeYaml(Head(queue).path)

====
